---- MODULE Spec2Model ----
(***************************************************************************)
(* read_files.c: read a number of files in parallel using io_uring.        *)
(*                                                                         *)
(* The model follows main() of src/read_files.c step by step: ring         *)
(* creation, capability probe, construction of the RIOVec array, staging   *)
(* of one read sqe per file, one io_uring_submit, the reap loop and the    *)
(* tear-down.  The kernel is a second process that completes accepted      *)
(* entries in any order, each with a byte count or a negative errno.       *)
(***************************************************************************)
EXTENDS Integers, Sequences, FiniteSets, TLC

(* ----------------------------- bounds --------------------------------- *)
\* largest argc - 1 explored
MaxFiles == 3
\* largest st_size explored
MaxSize == 2

(* --------------------------- environment ------------------------------ *)
\* negative results a completion event may carry (-EIO)
KernelErrors == {-5}
\* outcomes of make_riovec's three system calls
MakeOutcomes == {"ok", "open", "fstat", "malloc"}
\* outcomes of io_uring_get_probe_ring / io_uring_opcode_supported
ProbeOutcomes == {"null", "unsupported", "supported"}

VARIABLES
    pc,          \* position of main()
    num_files,   \* argc - 1
    st_size,     \* size on disk of the file named by argv[k+1]
    i,           \* loop counter of the loop main() is in
    files,       \* the RIOVec array (empty before calloc)
    ring_state,  \* "uninit", "open" after queue_init, "exited" after queue_exit
    sq_entries,  \* capacity of the submission queue
    sq,          \* staged sqes not yet handed to the kernel
    inflight,    \* sqes the kernel accepted and has not completed
    cq,          \* posted cqes not yet marked seen, oldest first
    submit_ret,  \* return value of io_uring_submit (-1 before/at failure)
    reap_ret,    \* return value of reap_reads (-1 while it has not returned)
    exit_code,   \* return value of main (-1 while it runs)
    waits,       \* successful io_uring_wait_cqe calls
    seen,        \* io_uring_cqe_seen calls
    exit_calls,  \* io_uring_queue_exit calls
    reaped,      \* the cqes reap_reads stored into files[], in order
    reported,    \* descriptors for which reap_reads reported a failed read
    faults       \* the calls of main that failed so far

vars == <<pc, num_files, st_size, i, files, ring_state, sq_entries, sq,
          inflight, cq, submit_ret, reap_ret, exit_code, waits, seen,
          exit_calls, reaped, reported, faults>>

ring == <<ring_state, sq_entries, sq, inflight, cq>>
hist == <<waits, seen, reaped, reported>>

Min(a, b) == IF a <= b THEN a ELSE b
Max(a, b) == IF a >= b THEN a ELSE b

Indices == 0 .. (num_files - 1)

(* ------------------------------ RIOVec -------------------------------- *)
\* one element of calloc(num_files, sizeof(RIOVec))
ZeroRIOVec ==
    [pathname |-> 0, fd |-> 0, fBuffer |-> 0, fOffset |-> 0, fSize |-> 0,
     fOutBytes |-> 0]

\* open() returns the lowest free descriptor; 0..2 are stdio, 3 is the ring
open_fd(k) == 4 + k
\* malloc() returns a fresh non-null block
malloc_addr(k) == 1 + k

\* rd->fSize = st.st_size
fSize_of_BUF_SIZE(size) == 1
fSize_of(size) == size

\* make_riovec(pathname, rd): the descriptor it leaves behind
make_riovec_rd(k, rd, outcome) ==
    LET r1 == [rd EXCEPT !.pathname = k + 1,
                         !.fd = IF outcome = "open" THEN -1 ELSE open_fd(k)]
        r2 == [r1 EXCEPT !.fBuffer = IF outcome = "malloc" THEN 0
                                     ELSE malloc_addr(k)]
    IN  CASE outcome = "open"   -> r1
          [] outcome = "fstat"  -> r1
          [] outcome = "malloc" -> r2
          [] OTHER -> [r2 EXCEPT !.fOffset = 0,
                                 !.fSize = fSize_of(st_size[k]),
                                 !.fOutBytes = 0]

\* make_riovec(pathname, rd): its return value
make_riovec_err_ignored(outcome) == 0
make_riovec_err_open_only(outcome) == IF outcome = "open" THEN 1 ELSE 0
make_riovec_err(outcome) == IF outcome = "ok" THEN 0 ELSE 1

(* ------------------------------- ring --------------------------------- *)
\* !(!p || !io_uring_opcode_supported(p, IORING_OP_READ))
probe_ok_nonnull(p) == p # "null"
probe_ok(p) == p = "supported"

\* the queue depth a ring created for n files gets when n is ignored
fixed_queue_depth(n) == 1
\* io_uring_queue_init rounds the requested entries up to a power of two
roundup_pow2(n) ==
    LET P == {2 ^ k : k \in 0 .. n}
    IN  CHOOSE p \in P : p >= n /\ \A q \in P : q >= n => p <= q

\* sqe->user_data = i
user_data_zero(k) == 0
user_data_of(k) == k

\* io_uring_prep_read(sqe, fd, buf, nbytes, offset); sqe->user_data = i
prep_read(k) ==
    [fd |-> files[k].fd, buf |-> files[k].fBuffer, nbytes |-> files[k].fSize,
     offset |-> files[k].fOffset, user_data |-> user_data_of(k)]

\* what a read of the staged entry returns when the kernel serves it
ReadResult(e) ==
    IF (e.fd - 4) \in DOMAIN st_size
    THEN Min(e.nbytes, Max(0, st_size[e.fd - 4] - e.offset))
    ELSE -9

\* for (int i = 0; i < num_files; i++) in prep_reads: another iteration
\* follows iteration k
prep_more_never(k) == FALSE
prep_more(k) == k + 1 < num_files

\* for (int i = 0; i < num_files; i++) in reap_reads
reap_bound_short(n) == n - 1
reap_bound_long(n) == n + 1
reap_bound(n) == n

\* index < 0 || index >= (unsigned long)num_files
bad_index_never(index) == FALSE
bad_index(index) == index >= num_files

\* files[index].fOutBytes = (size_t)cqe->res: the element written
reap_slot_loop(k, index) == k
reap_slot(k, index) == index

\* cqe->res < 0
res_failed_never(res) == FALSE
res_failed(res) == res < 0

(* ------------------------------- Init --------------------------------- *)
Init ==
    /\ pc = "start"
    /\ num_files \in 0 .. MaxFiles
    /\ st_size \in [0 .. (num_files - 1) -> 0 .. MaxSize]
    /\ i = 0
    /\ files = [k \in {} |-> ZeroRIOVec]
    /\ ring_state = "uninit"
    /\ sq_entries = 0
    /\ sq = <<>>
    /\ inflight = {}
    /\ cq = <<>>
    /\ submit_ret = -1
    /\ reap_ret = -1
    /\ exit_code = -1
    /\ waits = 0
    /\ seen = 0
    /\ exit_calls = 0
    /\ reaped = <<>>
    /\ reported = {}
    /\ faults = {}

\* return 0; from main
Return0 ==
    /\ pc' = "done"
    /\ exit_code' = 0
    /\ UNCHANGED faults

\* return 1; from main, after the call named by tag failed
Fail(tag) ==
    /\ pc' = "done"
    /\ exit_code' = 1
    /\ faults' = faults \cup {tag}

\* main goes on to the statement at label
Goto(label) ==
    /\ pc' = label
    /\ UNCHANGED <<exit_code, faults>>

(* ------------------------------- main --------------------------------- *)
\* if (argc < 2) return 1;
MainArgs ==
    /\ pc = "start"
    /\ IF num_files < 1 THEN Fail("argc") ELSE Goto("queue_init")
    /\ UNCHANGED <<num_files, st_size, i, files, ring, submit_ret, reap_ret,
                   exit_calls, hist>>

\* ret = io_uring_queue_init(num_files, &ring, 0); if (ret) return 1;
MainQueueInit ==
    /\ pc = "queue_init"
    /\ \E ok \in BOOLEAN :
         IF ok
         THEN /\ ring_state' = "open"
              /\ sq_entries' = roundup_pow2(num_files)
              /\ Goto("probe")
         ELSE /\ Fail("queue_init")
              /\ UNCHANGED <<ring_state, sq_entries>>
    /\ UNCHANGED <<num_files, st_size, i, files, sq, inflight, cq, submit_ret,
                   reap_ret, exit_calls, hist>>

\* p = io_uring_get_probe_ring(&ring);
\* if (!p || !io_uring_opcode_supported(p, IORING_OP_READ)) return 1;
MainProbe ==
    /\ pc = "probe"
    /\ \E p \in ProbeOutcomes :
         IF probe_ok(p)
         THEN /\ pc' = "calloc"
              /\ faults' = faults \cup (IF p = "supported" THEN {}
                                        ELSE {"probe"})
              /\ UNCHANGED exit_code
         ELSE Fail("probe")
    /\ UNCHANGED <<num_files, st_size, i, files, ring, submit_ret, reap_ret,
                   exit_calls, hist>>

\* files = calloc(num_files, sizeof(RIOVec)); if (!files) return 1;
MainCalloc ==
    /\ pc = "calloc"
    /\ \E ok \in BOOLEAN :
         IF ok
         THEN /\ files' = [k \in Indices |-> ZeroRIOVec]
              /\ i' = 0
              /\ Goto("make_riovec")
         ELSE /\ Fail("calloc")
              /\ UNCHANGED <<files, i>>
    /\ UNCHANGED <<num_files, st_size, ring, submit_ret, reap_ret,
                   exit_calls, hist>>

\* one iteration of: for (i ...) { err = make_riovec(argv[i+1], &files[i]);
\*                                 if (err) return 1; }
MainMakeRiovec ==
    /\ pc = "make_riovec"
    /\ i < num_files
    /\ \E outcome \in MakeOutcomes :
         /\ files' = [files EXCEPT ![i] = make_riovec_rd(i, files[i], outcome)]
         /\ IF make_riovec_err(outcome) # 0
            THEN Fail(outcome) /\ UNCHANGED i
            ELSE /\ i' = IF i + 1 < num_files THEN i + 1 ELSE 0
                 /\ Goto(IF i + 1 < num_files THEN "make_riovec"
                         ELSE "prep_reads")
    /\ UNCHANGED <<num_files, st_size, ring, submit_ret, reap_ret,
                   exit_calls, hist>>

\* one iteration of prep_reads' loop, and main's  if (ret) return 1;
PrepReads ==
    /\ pc = "prep_reads"
    /\ i < num_files
    /\ IF Len(sq) + Cardinality(inflight) >= sq_entries
       THEN \* sqe = io_uring_get_sqe(ring); if (!sqe) return 1;
            /\ Fail("get_sqe")
            /\ UNCHANGED <<sq, i>>
       ELSE /\ sq' = Append(sq, prep_read(i))
            /\ i' = IF prep_more(i) THEN i + 1 ELSE 0
            /\ Goto(IF prep_more(i) THEN "prep_reads" ELSE "submit")
    /\ UNCHANGED <<num_files, st_size, files, ring_state, sq_entries,
                   inflight, cq, submit_ret, reap_ret, exit_calls, hist>>

\* ret = io_uring_submit(&ring); if (ret <= 0) return 1;
\* the kernel takes the first ret staged entries
MainSubmit ==
    /\ pc = "submit"
    /\ \E ret \in {-1} \cup (0 .. Len(sq)) :
         /\ submit_ret' = ret
         /\ IF ret <= 0
            THEN /\ Fail("submit")
                 /\ UNCHANGED <<sq, inflight, i>>
            ELSE /\ inflight' = inflight \cup {sq[k] : k \in 1 .. ret}
                 /\ sq' = SubSeq(sq, ret + 1, Len(sq))
                 /\ i' = 0
                 /\ Goto("reap_reads")
    /\ UNCHANGED <<num_files, st_size, files, ring_state, sq_entries, cq,
                   reap_ret, exit_calls, hist>>

\* reap_reads returns 1 after the step named by tag; main:  if (ret) return 1;
ReapFails_returns0(tag) ==
    /\ reap_ret' = 0
    /\ Goto("queue_exit")

ReapFails(tag) ==
    /\ reap_ret' = 1
    /\ Fail(tag)

\* one iteration of reap_reads' loop: io_uring_wait_cqe blocks until a
\* completion is posted, then the event at the head of the queue is handled
ReapReads ==
    /\ pc = "reap_reads"
    /\ i < reap_bound(num_files)
    /\ cq # <<>>
    /\ LET cqe   == Head(cq)
           index == cqe.user_data
       IN  /\ waits' = waits + 1
           /\ IF bad_index(index)
              THEN /\ ReapFails("user_data")
                   /\ UNCHANGED <<files, cq, seen, reaped, reported, i>>
              ELSE IF res_failed(cqe.res)
              THEN /\ reported' = reported \cup {index}
                   /\ ReapFails("res")
                   /\ UNCHANGED <<files, cq, seen, reaped, i>>
              ELSE /\ files' = [files EXCEPT ![reap_slot(i, index)].fOutBytes = cqe.res]
                   /\ reaped' = Append(reaped, cqe)
                   /\ cq' = Tail(cq)
                   /\ seen' = seen + 1
                   /\ UNCHANGED reported
                   /\ IF i + 1 < reap_bound(num_files)
                      THEN /\ i' = i + 1
                           /\ UNCHANGED <<pc, reap_ret, exit_code, faults>>
                      ELSE /\ i' = 0
                           /\ reap_ret' = 0
                           /\ Goto("queue_exit")
    /\ UNCHANGED <<num_files, st_size, ring_state, sq_entries, sq, inflight,
                   submit_ret, exit_calls>>

\* ret = io_uring_wait_cqe(ring, &cqe); if (ret) return 1;
\* the wait returns at once when an event is posted, so it can only fail
\* (be interrupted) while the completion queue is empty
ReapWaitFails ==
    /\ pc = "reap_reads"
    /\ i < reap_bound(num_files)
    /\ cq = <<>>
    /\ ReapFails("wait")
    /\ UNCHANGED <<num_files, st_size, i, files, ring, submit_ret,
                   exit_calls, hist>>

\* io_uring_queue_exit(&ring);
MainQueueExit ==
    /\ pc = "queue_exit"
    /\ ring_state' = "exited"
    /\ exit_calls' = exit_calls + 1
    /\ Goto("free")
    /\ UNCHANGED <<num_files, st_size, i, files, sq_entries, sq, inflight, cq,
                   submit_ret, reap_ret, hist>>

\* free_riovec(&files[i]) for every i; free(files); return 0;
MainFree ==
    /\ pc = "free"
    /\ files' = [k \in {} |-> ZeroRIOVec]
    /\ Return0
    /\ UNCHANGED <<num_files, st_size, i, ring, submit_ret, reap_ret,
                   exit_calls, hist>>

(* ------------------------------ kernel -------------------------------- *)
\* the kernel finishes one accepted read, in any order, and posts its cqe:
\* user_data is echoed, res is the byte count or a negative errno; origin
\* remembers the descriptor the request read from
KernelComplete ==
    /\ pc # "done"
    /\ ring_state = "open"
    /\ \E e \in inflight :
         \E res \in {ReadResult(e)} \cup KernelErrors :
           /\ inflight' = inflight \ {e}
           /\ cq' = Append(cq, [user_data |-> e.user_data, res |-> res,
                                origin |-> e.fd])
    /\ UNCHANGED <<pc, num_files, st_size, i, files, ring_state, sq_entries,
                   sq, submit_ret, reap_ret, exit_code, exit_calls, hist,
                   faults>>

Next ==
    \/ MainArgs
    \/ MainQueueInit
    \/ MainProbe
    \/ MainCalloc
    \/ MainMakeRiovec
    \/ PrepReads
    \/ MainSubmit
    \/ ReapReads
    \/ ReapWaitFails
    \/ MainQueueExit
    \/ MainFree
    \/ KernelComplete

Spec == Init /\ [][Next]_vars

\* the steps of the single control thread that do not depend on a signal:
\* the thread keeps running, and a wait returns once an event is posted
MainSteps ==
    \/ MainArgs
    \/ MainQueueInit
    \/ MainProbe
    \/ MainCalloc
    \/ MainMakeRiovec
    \/ PrepReads
    \/ MainSubmit
    \/ ReapReads
    \/ MainQueueExit
    \/ MainFree

\* the thread runs on and the kernel finishes every read it accepted
FairSpec == Spec /\ WF_vars(MainSteps) /\ WF_vars(KernelComplete)

\* a completion event whose user_data is no index of the batch, as the
\* index check of reap_reads expects it could be posted
KernelStrayEvent ==
    /\ pc = "reap_reads"
    /\ ring_state = "open"
    /\ \A j \in 1 .. Len(cq) : cq[j].user_data < num_files
    /\ \A j \in 1 .. Len(reaped) : reaped[j].user_data < num_files
    /\ cq' = Append(cq, [user_data |-> num_files, res |-> 0, origin |-> -1])
    /\ UNCHANGED <<pc, num_files, st_size, i, files, ring_state, sq_entries,
                   sq, inflight, submit_ret, reap_ret, exit_code, exit_calls,
                   hist, faults>>

NextWithStray ==
    \/ Next
    \/ KernelStrayEvent

SpecWithStray == Init /\ [][NextWithStray]_vars

(* ------------------------- claim vocabulary --------------------------- *)
Range(s) == {s[j] : j \in 1 .. Len(s)}

\* how often reap_reads stored a result into files[k].fOutBytes
Written(k) == Cardinality({j \in 1 .. Len(reaped) : reaped[j].user_data = k})

\* every completion event the kernel posted so far, oldest first
Posted == reaped \o cq

\* the lifecycle state of descriptor k
DescState(k) ==
    IF Written(k) > 0 THEN "Completed"
    ELSE IF k \in reported THEN "Failed"
    ELSE IF k < submit_ret THEN "Submitted"
    ELSE IF k \in DOMAIN files /\ files[k].fd > 0 THEN "Opened"
    ELSE "Constructed"

\* the failures of main that happen before the drain
SetupFaults ==
    {"argc", "queue_init", "probe", "calloc", "open", "fstat", "malloc",
     "get_sqe", "submit"}

(* ------------------------------ claims -------------------------------- *)

\* C1: when reap_reads returns from a batch whose n entries were all
\* accepted (and no wait was interrupted), every one of the n descriptors is
\* Completed or Failed; none is left Submitted.
C1_DrainResolvesAll ==
    (reap_ret # -1 /\ submit_ret = num_files /\ "wait" \notin faults)
        => \A k \in Indices : DescState(k) \in {"Completed", "Failed"}

\* C2: a negative result does not stop the drain: when reap_reads returns
\* (no wait having failed) it has waited for and obtained the completion
\* event of every submitted request.
C2_NegativeResultKeepsDraining ==
    (reap_ret # -1 /\ "wait" \notin faults) => waits = submit_ret

\* C3: whatever the order of the completions, after reap_reads returns 0
\* files[k].fOutBytes is the result of the read staged for descriptor k, and
\* every stored event was the completion of the request that read from the
\* descriptor it was stored into.
C3_OrderIndependence ==
    (reap_ret = 0 /\ pc # "done")
        => /\ \A k \in Indices : files[k].fOutBytes = ReadResult(prep_read(k))
           /\ \A j \in 1 .. Len(reaped) :
                files[reaped[j].user_data].fd = reaped[j].origin

\* C3 witness: three reads of different sizes completed in the order 2, 0, 1
C3_Witness ==
    /\ reap_ret = 0
    /\ pc = "queue_exit"
    /\ num_files = 3
    /\ [j \in 1 .. Len(reaped) |-> reaped[j].user_data] = <<2, 0, 1>>
    /\ [j \in 1 .. 3 |-> files[j - 1].fOutBytes] = <<2, 0, 1>>

\* C4: after a partial submission (0 < k < n entries accepted) the program
\* is never in a completion wait for an entry the kernel did not accept.
C4_NoWaitForUnaccepted ==
    ~(pc = "reap_reads" /\ submit_ret < num_files /\ waits >= submit_ret)

\* C5: the tags of the entries of a batch are pairwise distinct, lie in
\* [0, n), the tag of the entry staged for files[k] is k, and no tag is used
\* twice among the staged, outstanding, posted and reaped entries.
C5_TagUniqueness ==
    LET entries == Range(sq) \cup inflight
        tags    == {e.user_data : e \in entries}
                   \cup {c.user_data : c \in Range(cq) \cup Range(reaped)}
    IN  /\ tags \subseteq Indices
        /\ Cardinality(tags) =
               Len(sq) + Cardinality(inflight) + Len(cq) + Len(reaped)
        /\ \A e \in entries : \A k \in DOMAIN files :
               e.fd = files[k].fd => e.user_data = k

\* C5 witness: all three entries staged, tagged 0, 1, 2
C5_Witness ==
    /\ pc = "submit"
    /\ [j \in 1 .. Len(sq) |-> sq[j].user_data] = <<0, 1, 2>>

\* C6 (as claimed): when the second of three paths cannot be opened, the
\* first and third request still complete with their byte counts.
C6_OpenFailureIsolated ==
    (pc = "done" /\ num_files = 3 /\ "open" \in faults /\ files[1].fd = -1)
        => /\ DescState(0) = "Completed" /\ files[0].fOutBytes = st_size[0]
           /\ DescState(2) = "Completed" /\ files[2].fOutBytes = st_size[2]

\* C6 (amended): a path that cannot be opened ends the run at once: main has
\* returned 1, nothing was staged or submitted, no completion was waited
\* for, and no descriptor is Submitted or Completed.
C6_OpenFailureFatal ==
    \A k \in DOMAIN files :
        files[k].fd = -1
            => /\ pc = "done" /\ exit_code = 1
               /\ sq = <<>> /\ inflight = {} /\ submit_ret = -1 /\ waits = 0
               /\ \A j \in Indices :
                      DescState(j) \notin {"Submitted", "Completed"}

\* C6 witness: three files, the first opened, the second does not exist
C6_Witness ==
    /\ pc = "done"
    /\ num_files = 3
    /\ "open" \in faults
    /\ files[0].fd = 4 /\ files[0].fBuffer # 0
    /\ files[1].fd = -1
    /\ exit_code = 1

\* C7: io_uring_queue_exit is called only when no submitted request is
\* outstanding: nothing is in flight, no posted event is unconsumed, every
\* accepted entry has been reaped and no descriptor is Submitted.
C7_DrainBeforeDestroy ==
    exit_calls > 0
        => /\ inflight = {} /\ cq = <<>>
           /\ Len(reaped) = submit_ret
           /\ \A k \in Indices : DescState(k) # "Submitted"

\* C7 witness: the ring is torn down after a batch of three was drained
C7_Witness ==
    /\ exit_calls = 1
    /\ ring_state = "exited"
    /\ num_files = 3
    /\ seen = 3

\* C8: whenever main has returned after io_uring_queue_init succeeded,
\* io_uring_queue_exit has been called exactly once.
C8_RingReleasedOnce ==
    (pc = "done" /\ ring_state # "uninit") => exit_calls = 1

\* everything main does went well: no call before the drain failed and all
\* n completion events were posted with a non-negative result
RunSucceeded ==
    /\ faults \cap SetupFaults = {}
    /\ Len(Posted) = num_files
    /\ \A j \in 1 .. Len(Posted) : Posted[j].res >= 0

\* C9: main returns 0 or 1, and 0 exactly when ring creation, probe, every
\* open/stat/allocation, staging and submission succeeded and all n
\* completion events were posted with a non-negative result.
C9_ExitCode ==
    pc = "done" => /\ exit_code \in {0, 1}
                   /\ exit_code = 0 <=> RunSucceeded

\* C9 witness: main returned 1 because the third read of a batch failed
C9_Witness ==
    /\ pc = "done"
    /\ exit_code = 1
    /\ faults = {"res"}
    /\ Len(reaped) = 2

\* C10: a descriptor whose completion was reaped holds the size of its file
\* in fOutBytes; after a drain that returned 0 that is every descriptor, none
\* has a failure reported, and main returns 0.
C10_ByteCount ==
    /\ \A k \in DOMAIN files :
           Written(k) > 0 => files[k].fOutBytes = st_size[k]
    /\ reap_ret = 0 => /\ \A k \in Indices : Written(k) = 1
                       /\ reported = {}
                       /\ pc = "done" => exit_code = 0

\* C10 witness: three files of sizes 2, 0 and 1 read in full
C10_Witness ==
    /\ pc = "free"
    /\ num_files = 3
    /\ st_size[0] = 2 /\ st_size[1] = 0 /\ st_size[2] = 1
    /\ \A k \in Indices : files[k].fOutBytes = st_size[k]

\* C11: when reap_reads returns, every completion event it obtained from
\* io_uring_wait_cqe has been marked consumed with io_uring_cqe_seen.
C11_EveryEventSeen ==
    reap_ret # -1 => seen = waits

\* the position of a lifecycle state in Constructed -> Opened -> Submitted ->
\* {Completed | Failed}
StateRank(st) ==
    CASE st = "Constructed" -> 0
      [] st = "Opened"      -> 1
      [] st = "Submitted"   -> 2
      [] OTHER              -> 3

\* C12: a descriptor's outcome is written at most once, a descriptor is
\* Completed or Failed only if the submit call accepted its entry, it never
\* moves backwards in the state machine, reaches a terminal state only from
\* Submitted, and never leaves a terminal state.
C12_StateMachine ==
    [][\A k \in Indices :
          LET old == DescState(k)
              new == DescState(k)'
          IN  /\ Written(k)' <= 1
              /\ ~(Written(k)' > 0 /\ k \in reported')
              /\ StateRank(new) = 3 => k < submit_ret'
              /\ StateRank(new) >= StateRank(old)
              /\ (StateRank(new) = 3 /\ StateRank(old) < 3)
                    => old = "Submitted"
              /\ StateRank(old) = 3 => new = old]_vars

\* C12 witness: of two accepted requests one is Completed, one Submitted
C12_Witness ==
    /\ num_files = 2
    /\ DescState(0) = "Submitted"
    /\ DescState(1) = "Completed"

C14_MakeFailureFatal ==
    \A k \in DOMAIN files :
        (files[k].pathname # 0 /\ (files[k].fd < 0 \/ files[k].fBuffer = 0))
            => /\ pc = "done" /\ exit_code = 1
               /\ sq = <<>> /\ inflight = {} /\ cq = <<>>
               /\ submit_ret = -1 /\ waits = 0 /\ reap_ret = -1

\* C14 witness: the buffer of the third file could not be allocated
C14_Witness ==
    /\ num_files = 3
    /\ "malloc" \in faults
    /\ files[2].fd = 6 /\ files[2].fBuffer = 0
    /\ files[1].fBuffer # 0

\* C15: when the submit call accepted all n entries, reap_reads is in a wait
\* only while it has obtained fewer than n events, never obtains more than
\* were submitted, and (the kernel completing every accepted read) returns,
\* after which main terminates.
C15_DrainTerminates ==
    /\ [](submit_ret = num_files
            => /\ waits <= submit_ret
               /\ pc = "reap_reads" => waits < num_files)
    /\ (submit_ret = num_files) ~> (reap_ret # -1)
    /\ (submit_ret = num_files) ~> (pc = "done")

\* C15 witness: a fully accepted batch of three was drained by three waits
\* and main returned
C15_Witness ==
    /\ num_files = 3
    /\ submit_ret = 3
    /\ waits = 3
    /\ reap_ret = 0
    /\ pc = "done"

\* C16: once the probe returned nothing or reported the read operation
\* unsupported, main has returned 1 and no file was opened, no entry staged
\* or submitted and no completion waited for.
C16_CapabilityGate ==
    "probe" \in faults
        => /\ pc = "done" /\ exit_code = 1
           /\ DOMAIN files = {}
           /\ sq = <<>> /\ inflight = {} /\ cq = <<>>
           /\ submit_ret = -1 /\ waits = 0 /\ reap_ret = -1

\* C16 witness: the probe failed for a run with three files
C16_Witness ==
    /\ num_files = 3
    /\ faults = {"probe"}
    /\ ring_state = "open"
    /\ pc = "done"

\* the place of a position of main in the order of its steps
Phase(l) ==
    CASE l = "start"       -> 0
      [] l = "queue_init"  -> 1
      [] l = "probe"       -> 2
      [] l = "calloc"      -> 3
      [] l = "make_riovec" -> 4
      [] l = "prep_reads"  -> 5
      [] l = "submit"      -> 6
      [] l = "reap_reads"  -> 7
      [] l = "queue_exit"  -> 8
      [] l = "free"        -> 9
      [] OTHER             -> 10

\* C17: main never goes back to an earlier step; descriptors are built with
\* the ring open, entries staged only once every descriptor is built, the
\* submit call is made once with all n entries staged and is the only step
\* that hands entries to the kernel, waits happen only after it returned a
\* positive count, and the teardown only after reap_reads returned 0.
C17_PhaseOrdering ==
    [][/\ Phase(pc') >= Phase(pc)
       /\ (pc = "make_riovec" /\ files' # files) => ring_state = "open"
       /\ Len(sq') > Len(sq)
             => /\ pc = "prep_reads"
                /\ \A k \in Indices : files[k].fBuffer # 0 /\ files[k].fd > 0
       /\ pc = "submit" => (pc' # "submit" /\ Len(sq) = num_files)
       /\ inflight' \ inflight # {} => pc = "submit"
       /\ submit_ret' # submit_ret => pc = "submit"
       /\ (waits' # waits \/ reap_ret' # reap_ret)
             => (pc = "reap_reads" /\ submit_ret > 0)
       /\ exit_calls' # exit_calls
             => (pc = "queue_exit" /\ reap_ret = 0)]_vars

\* C17 witness: a run of three files went through every step to return 0
C17_Witness ==
    /\ num_files = 3
    /\ pc = "done"
    /\ exit_code = 0
    /\ exit_calls = 1
    /\ seen = 3

\* C18: the staged, outstanding and posted requests never exceed the ring
\* capacity, which is at least num_files, and io_uring_get_sqe never fails.
C18_CapacityNeverExceeded ==
    /\ Len(sq) + Cardinality(inflight) + Len(cq) <= sq_entries
    /\ ring_state # "uninit" => sq_entries >= num_files
    /\ "get_sqe" \notin faults

\* C18 witness: three entries staged on a ring of four slots
C18_Witness ==
    /\ num_files = 3
    /\ sq_entries = 4
    /\ Len(sq) = 3
    /\ pc = "submit"

\* a descriptor without its fOutBytes field
Frame(rd) == [rd EXCEPT !.fOutBytes = 0]

\* what C19 asks of one step
DrainFrameStep ==
    pc \in {"reap_reads", "queue_exit"}
      => IF waits' = waits
         THEN files' = files
         ELSE LET cqe == Head(cq)
              IN  /\ DOMAIN files' = DOMAIN files
                  /\ \A k \in DOMAIN files :
                       /\ Frame(files'[k]) = Frame(files[k])
                       /\ files'[k].fOutBytes # files[k].fOutBytes
                             => /\ k = cqe.user_data
                                /\ cqe.res >= 0
                       /\ (k = cqe.user_data /\ cqe.res >= 0)
                             => files'[k].fOutBytes = cqe.res
                  /\ cqe.res < 0 => files' = files
                  /\ cqe.user_data \notin Indices
                        => /\ files' = files
                           /\ reap_ret' = 1
                           /\ reaped' = reaped

\* C19: while reap_reads runs and until the teardown, a step changes nothing
\* in files[] except, when an event is consumed whose tag is in [0, n) and
\* whose result is non-negative, the fOutBytes of the descriptor at that tag,
\* which becomes the result; an event with an out-of-range tag makes
\* reap_reads return 1 with nothing written.
C19_DrainFrame == [][DrainFrameStep]_vars

\* C19 witness: after one event was stored, an event with tag n made
\* reap_reads return 1
C19_Witness ==
    /\ num_files = 2
    /\ "user_data" \in faults
    /\ reap_ret = 1
    /\ Len(reaped) = 1
    /\ files[reaped[1].user_data].fOutBytes = 2

====
